---- MODULE Spec2Model ----
(***************************************************************************)
(* QuizCraft: the quiz-submission path of the server, the authoring of a   *)
(* quiz, the quiz-taking page and the session middleware.                  *)
(*                                                                         *)
(* The state is the document store as POST /api/results/submit sees it     *)
(* (the questions of one quiz, the Quiz document, its category, the guest  *)
(* students, the Result collection) together with the last request the     *)
(* handler served and the handler's locals when it answered; the body of   *)
(* the createQuiz request that authored the quiz; the submissions in       *)
(* flight when requests overlap; the quiz-taking page in the browser; and  *)
(* the users and the session the middleware sees.                          *)
(*                                                                         *)
(* submitQuiz (server/controllers/resultController.js) is one action: the  *)
(* checks, the scoring loop, Result.save() with its validators and its     *)
(* post-save hook, Student.updateAverageScore() and the controller's own   *)
(* quiz.save(). Where requests overlap the same handler is cut at its      *)
(* awaits.                                                                 *)
(***************************************************************************)
EXTENDS Integers, Sequences, FiniteSets

VARIABLES
    questions,  \* the Question documents of the quiz, in stored order
    quiz,       \* the Quiz document
    students,   \* the Student documents, by _id
    results,    \* the Result collection, in insertion order
    req,        \* the request served last
    h,          \* the handler's locals and its response when it answered
    category,   \* the Category document of the quiz
    body,       \* the body of the createQuiz request served last
    flights,    \* the submitQuiz requests in flight, each with its locals
    page,       \* the quiz-taking page of one participant
    web         \* the User documents, the session and the last admin request

vars == <<questions, quiz, students, results, req, h, category, body, flights, page, web>>

----------------------------------------------------------------------------
(* Bounds of the model *)

MaxQuestions == 2   \* questions a quiz holds
MaxAnswers == 2     \* entries of a submitted answers array
MaxResults == 3     \* Results persisted in a run of Spec
MaxTimeLimit == 2   \* minutes a quiz allows, in the quiz-taking page
MaxCategories == 3  \* categories createCategory stores in a run of NameSpec

----------------------------------------------------------------------------
(* Documents and identifiers *)

NumOptions == 4

NoId == "none"          \* undefined / absent identifier
QuizId == "quiz1"       \* _id of the quiz in the store
UnknownQuizId == "quiz9"
Students == {"s1"}      \* _ids of the Student documents in the store
UnknownStudentId == "s9"
Users == {"u1"}         \* _ids of the User documents in the store
ForeignQuestionId == "qX" \* a question id that belongs to no quiz

QuestionIds == <<"q1", "q2", "q3", "q4", "q5">>

\* options of a stored question: four, exactly one flagged correct
MkOptions(c) == [i \in 1..NumOptions |-> (i - 1 = c)]

\* the questions a teacher may have authored (points, index of the correct option)
QuestionPool ==
    { [points |-> 1,  correct |-> 1],
      [points |-> 2,  correct |-> 0],
      [points |-> 4,  correct |-> 3],
      [points |-> 17, correct |-> 0],
      [points |-> 23, correct |-> 2] }

\* the Question documents createQuiz stores for a list of authored questions
MkQuestions(s) ==
    [i \in 1..Len(s) |->
        [id |-> QuestionIds[i], points |-> s[i].points, options |-> MkOptions(s[i].correct)]]

QuizFixtures ==
    { MkQuestions(s) : s \in UNION { [1..n -> QuestionPool] : n \in 0..MaxQuestions } }

\* values a client may send as selectedOption: the sentinel, the four option
\* indices, and one index past the range
SelectedOptions == -1..4

----------------------------------------------------------------------------
(* Arithmetic of the handler *)

\* Math.round(a / n) for integers a >= 0, n > 0: one correctly rounded division,
\* so a tie a/n = k + 1/2 is exact in doubles and rounds up
MathRoundDiv(a, n) == (2 * a + n) \div (2 * n)

\* (s / t) * 100 is two rounded double operations; for these (s, t), the only
\* ones with s, t <= 100, the exact value k + 1/2 comes out just below the tie
\* (23/40*100 = 57.49999999999999) and Math.round gives k, not k + 1
DoubleBelowTie == { <<23, 40>>, <<41, 40>>, <<51, 40>>, <<87, 40>>, <<97, 40>>,
                    <<46, 80>>, <<82, 80>> }

\* Math.round((s / t) * 100)
MathRoundPercent(s, t) ==
    IF <<s, t>> \in DoubleBelowTie
    THEN MathRoundDiv(100 * s, t) - 1
    ELSE MathRoundDiv(100 * s, t)

\* q.points || 1
PointsOf(q) == IF q.points = 0 THEN 1 ELSE q.points

----------------------------------------------------------------------------
(* Scoring: resultController.js, step 3 *)

\* totalPoints after the forEach over quiz.questions
TotalPoints(qs) ==
    LET RECURSIVE Sum(_)
        Sum(i) == IF i = 0 THEN 0 ELSE Sum(i - 1) + PointsOf(qs[i])
    IN Sum(Len(qs))

\* questionMap.get(questionId): the question, or none
HasQuestion(qs, qid) == \E i \in 1..Len(qs) : qs[i].id = qid
GetQuestion(qs, qid) == qs[CHOOSE i \in 1..Len(qs) : qs[i].id = qid]

\* the range check with its lower end off by one
InRangeFromOne(q, sel) == sel > 0 /\ sel < Len(q.options)

\* selectedOption >= 0 && selectedOption < question.options.length
InRange(q, sel) == sel >= 0 /\ sel < Len(q.options)

\* the branch that sets isCorrect
IsCorrect(q, sel) == InRange(q, sel) /\ q.options[sel + 1]

\* one turn of answers.forEach: acc holds correctAnswers, scorePoints, resultAnswers
ProcessAnswer(qs, acc, answer) ==
    IF ~HasQuestion(qs, answer.questionId)
    THEN acc
    ELSE LET q == GetQuestion(qs, answer.questionId)
             ok == IsCorrect(q, answer.selectedOption)
             pts == IF ok THEN PointsOf(q) ELSE 0
         IN [correctAnswers |-> acc.correctAnswers + (IF ok THEN 1 ELSE 0),
             scorePoints    |-> acc.scorePoints + pts,
             resultAnswers  |-> Append(acc.resultAnswers,
                                   [question       |-> q.id,
                                    selectedOption |-> answer.selectedOption,
                                    isCorrect      |-> ok,
                                    pointsEarned   |-> pts])]

RECURSIVE ProcessAnswers(_, _, _)
ProcessAnswers(qs, answers, n) ==
    IF n = 0
    THEN [correctAnswers |-> 0, scorePoints |-> 0, resultAnswers |-> <<>>]
    ELSE ProcessAnswer(qs, ProcessAnswers(qs, answers, n - 1), answers[n])

\* const percentage = totalPoints > 0 ? Math.round(...) : 0
Percentage(scorePoints, totalPoints) ==
    IF totalPoints > 0 THEN MathRoundPercent(scorePoints, totalPoints) ELSE 0

\* const incorrectAnswers = answers.length - correctAnswers
IncorrectAnswers(answers, correctAnswers) == Len(answers) - correctAnswers

\* const unanswered = quiz.questions.length - answers.length
Unanswered(qs, answers) == Len(qs) - Len(answers)

\* the locals of step 3 when line 159 has run
CalculateScores(qs, answers) ==
    LET acc == ProcessAnswers(qs, answers, Len(answers))
        total == TotalPoints(qs)
    IN [correctAnswers   |-> acc.correctAnswers,
        totalPoints      |-> total,
        scorePoints      |-> acc.scorePoints,
        resultAnswers    |-> acc.resultAnswers,
        incorrectAnswers |-> IncorrectAnswers(answers, acc.correctAnswers),
        unanswered       |-> Unanswered(qs, answers),
        percentage       |-> Percentage(acc.scorePoints, total)]

NoScores ==
    [correctAnswers |-> 0, totalPoints |-> 0, scorePoints |-> 0, resultAnswers |-> <<>>,
     incorrectAnswers |-> 0, unanswered |-> 0, percentage |-> 0]

----------------------------------------------------------------------------
(* Requests *)

\* one entry of the answers array; a null entry has isObject = FALSE
Answer(qid, sel) == [isObject |-> TRUE, questionId |-> qid, selectedOption |-> sel]
NullAnswer == [isObject |-> FALSE, questionId |-> NoId, selectedOption |-> -1]

AnswersArray(items) == [isArray |-> TRUE, items |-> items]
NotAnArray == [isArray |-> FALSE, items |-> <<>>]

\* the body of POST /api/results/submit and the session the request carries
Request(quizId, answers, studentId, participantType, sessionUser) ==
    [quizId |-> quizId, answers |-> answers, studentId |-> studentId,
     participantType |-> participantType, sessionUser |-> sessionUser]

NoRequest == Request(NoId, NotAnArray, NoId, "student", NoId)

\* router.post('/submit', resultController.submitQuiz): no auth middleware runs
\* on this route, so req.userId is never set whatever the session holds
SubmitRouteUserId(r) == NoId

----------------------------------------------------------------------------
(* Responses and the handler's locals *)

Resp(status, message) == [status |-> status, message |-> message]
Pass == Resp(0, "")

\* quiz: the handler's own copy of the quiz document as it stands when the
\* response is sent
Frame(resp, scored, scores, prior, existing, doc) ==
    [status |-> resp.status, message |-> resp.message, scored |-> scored,
     scores |-> scores, priorAttemptCount |-> prior, existingAverageScore |-> existing,
     quiz |-> doc]

NoQuizDoc == [attemptCount |-> 0, averageScore |-> 0]

\* the check for an empty quiz left out
NeverWithoutQuestions(qs) == FALSE

\* if (!quiz.questions || quiz.questions.length === 0)
QuizHasNoQuestions(qs) == Len(qs) = 0

\* Quiz.findById(quizId) finds a document
FindQuiz(q, quizId) == quizId = QuizId /\ q.exists

\* the checks of the handler up to step 3, in the order of the code; Pass when
\* none of them answers
EarlyResponse(r, userId, found, qs, studs) ==
    IF r.quizId = NoId THEN Resp(400, "Quiz ID is required")
    ELSE IF ~r.answers.isArray THEN Resp(400, "Answers array is required")
    ELSE IF r.participantType \notin {"student", "user"}
         THEN Resp(400, "Invalid participant type")
    ELSE IF ~found THEN Resp(404, "Quiz not found")
    ELSE IF QuizHasNoQuestions(qs) THEN Resp(400, "Quiz has no questions")
    ELSE IF r.participantType = "student"
         THEN IF r.studentId = NoId THEN Resp(400, "Student ID is required")
              ELSE IF r.studentId \notin DOMAIN studs THEN Resp(404, "Student not found")
              ELSE Pass
    ELSE IF userId = NoId THEN Resp(401, "User not authenticated")
    ELSE IF userId \notin Users THEN Resp(404, "User not found")
    ELSE Pass

\* answer.questionId on a null entry throws a TypeError inside answers.forEach
ScoringThrows(items) == \E i \in 1..Len(items) : ~items[i].isObject

----------------------------------------------------------------------------
(* The Result document and its persistence *)

\* both references set whatever the participant type
OwnerOfEither(r, userId, path) == IF path = "student" THEN r.studentId ELSE "u1"

\* [participantType]: participantRef._id: the one reference of the Result
\* that is set, path being "student" or "user"
OwnerOf(r, userId, path) ==
    IF r.participantType # path THEN NoId
    ELSE IF path = "student" THEN r.studentId ELSE userId

\* new Result({...}) of step 4
NewResult(r, userId, sc, qs) ==
    [quiz            |-> r.quizId,
     participantType |-> r.participantType,
     student         |-> OwnerOf(r, userId, "student"),
     user            |-> OwnerOf(r, userId, "user"),
     score           |-> sc.scorePoints,
     totalQuestions  |-> Len(qs),
     correctAnswers  |-> sc.correctAnswers,
     incorrectAnswers |-> sc.incorrectAnswers,
     unanswered      |-> sc.unanswered,
     totalPoints     |-> sc.totalPoints,
     timeTaken       |-> 0,
     wasTimeout      |-> FALSE,   \* the schema default: the handler sets no wasTimeout
     percentage      |-> sc.percentage,
     answers         |-> sc.resultAnswers]

\* the validators of resultSchema that run when save() validates the document
ValidResult(doc) ==
    /\ doc.score >= 0
    /\ doc.totalQuestions >= 0
    /\ doc.correctAnswers >= 0
    /\ doc.incorrectAnswers >= 0
    /\ doc.totalPoints >= 0
    /\ doc.timeTaken >= 0
    /\ doc.percentage >= 0 /\ doc.percentage <= 100
    /\ \A i \in 1..Len(doc.answers) :
          doc.answers[i].selectedOption >= -1 /\ doc.answers[i].selectedOption <= 3

\* the collection holds the latest Result alone
KeepLatestOnly(rs, doc) == <<doc>>

\* result.save() of a new document: one more document in the collection
InsertResult(rs, doc) == Append(rs, doc)

RECURSIVE SumPercentage(_, _)
SumPercentage(rs, n) == IF n = 0 THEN 0 ELSE SumPercentage(rs, n - 1) + rs[n].percentage

\* Result.find({ quiz })
ResultsOfQuiz(rs, quizId) == SelectSeq(rs, LAMBDA x : x.quiz = quizId)

\* Result.find({ student })
ResultsOfStudent(rs, sid) == SelectSeq(rs, LAMBDA x : x.student = sid)

\* resultSchema.post('save'): the quiz's aggregates recomputed from all its Results
PostSaveQuizStats(q, rs, quizId) ==
    LET mine == ResultsOfQuiz(rs, quizId)
    IN [q EXCEPT !.attemptCount = Len(mine),
                 !.averageScore = IF Len(mine) > 0
                                  THEN MathRoundDiv(SumPercentage(mine, Len(mine)), Len(mine))
                                  ELSE 0]

\* studentSchema.methods.updateAverageScore
UpdateAverageScore(studs, sid, rs) ==
    LET mine == ResultsOfStudent(rs, sid)
    IN IF Len(mine) > 0
       THEN [studs EXCEPT ![sid].averageScore =
                MathRoundDiv(SumPercentage(mine, Len(mine)), Len(mine))]
       ELSE studs

\* the threshold written into getQuizStats
PassThreshold == 60

RECURSIVE SumTimeTaken(_, _)
SumTimeTaken(rs, n) == IF n = 0 THEN 0 ELSE SumTimeTaken(rs, n - 1) + rs[n].timeTaken

\* resultSchema.statics.getQuizStats: the statistics recomputed from all the
\* Results of the quiz
GetQuizStats(rs, quizId) ==
    LET mine == ResultsOfQuiz(rs, quizId)
        n == Len(mine)
        percentages == { mine[i].percentage : i \in 1..n }
        passed == Cardinality({ i \in 1..n : mine[i].percentage >= PassThreshold })
    IN IF n = 0
       THEN [attemptCount |-> 0, averageScore |-> 0, highestScore |-> 0,
             lowestScore |-> 0, averageTime |-> 0, passRate |-> 0]
       ELSE [attemptCount |-> n,
             averageScore |-> MathRoundDiv(SumPercentage(mine, n), n),
             highestScore |-> CHOOSE x \in percentages : \A y \in percentages : y <= x,
             lowestScore  |-> CHOOSE x \in percentages : \A y \in percentages : x <= y,
             averageTime  |-> MathRoundDiv(SumTimeTaken(mine, n), n),
             passRate     |-> MathRoundPercent(passed, n)]

\* step 6 on the quiz document loaded in step 1
IncrementalAttemptCount(loaded) == loaded.attemptCount + 1

\* the mean of the old average and the new percentage, the count left out
IncrementalAverageUnweighted(loaded, percentage) ==
    MathRoundDiv(loaded.averageScore + percentage, 2)

\* the running average truncated instead of rounded
IncrementalAverageFloor(loaded, percentage) ==
    (loaded.averageScore * loaded.attemptCount + percentage) \div (loaded.attemptCount + 1)

IncrementalAverage(loaded, percentage) ==
    MathRoundDiv(loaded.averageScore * (IncrementalAttemptCount(loaded) - 1) + percentage,
                 IncrementalAttemptCount(loaded))

\* the quiz document in the handler after the two assignments of step 6
AssignedQuizStats(loaded, percentage) ==
    [loaded EXCEPT !.attemptCount = IncrementalAttemptCount(loaded),
                   !.averageScore = IncrementalAverage(loaded, percentage)]

\* save() sending every assigned path, changed or not
SaveAssigned(before, after, kept) == after

\* save() of a loaded document sends the paths whose value differs from the one
\* loaded; a path assigned the value it already had stays as it is stored
SavePath(before, after, kept) == IF after # before THEN after ELSE kept

\* the controller's write left out: the stored aggregates stay the hook's
ControllerKeepsStored(stored, loaded, percentage) == stored

\* quiz.save(): the modified paths written over the stored document
ControllerQuizStats(stored, loaded, percentage) ==
    LET doc == AssignedQuizStats(loaded, percentage)
    IN [stored EXCEPT
          !.attemptCount = SavePath(loaded.attemptCount, doc.attemptCount, stored.attemptCount),
          !.averageScore = SavePath(loaded.averageScore, doc.averageScore, stored.averageScore)]

----------------------------------------------------------------------------
(* The Quiz document and its category *)

CategoryId == "c1"          \* _id and name of the Category in the store
UnknownCategory == "c9"

\* new Quiz({...}) with the defaults of quizSchema; passPercentage is not a
\* path of the schema and is dropped
NewQuiz(isPublished) ==
    [exists |-> TRUE, isPublished |-> isPublished, questionCount |-> 0,
     totalPoints |-> 0, attemptCount |-> 0, averageScore |-> 0]

\* no document of that _id in the collection
NoQuiz == [NewQuiz(FALSE) EXCEPT !.exists = FALSE]

\* every question counted as one point
UpdateStatsCountOnly(q, qs) ==
    [q EXCEPT !.questionCount = Len(qs), !.totalPoints = Len(qs)]

\* quizSchema.methods.updateStats
UpdateStats(q, qs) ==
    [q EXCEPT !.questionCount = Len(qs), !.totalPoints = TotalPoints(qs)]

\* Category.updateQuizCount: the published quizzes of the category, counted
UpdateQuizCount(cat, q) ==
    IF cat.exists
    THEN [cat EXCEPT !.quizCount = IF q.exists /\ q.isPublished THEN 1 ELSE 0]
    ELSE cat

NewCategory == [exists |-> TRUE, quizCount |-> 0]

\* the createQuiz body is not looked at
NoBody == [given |-> FALSE]

\* nothing outside the submission path
NoFlights == <<>>
NoPage == [screen |-> "closed"]
NoWeb == [open |-> FALSE]

----------------------------------------------------------------------------
(* submitQuiz *)

\* the handler answers without having stored anything
Reject(r, resp, scored, scores) ==
    /\ req' = r
    /\ h' = Frame(resp, scored, scores, 0, 0, NoQuizDoc)
    /\ UNCHANGED <<questions, quiz, students, results>>
    /\ UNCHANGED <<category, body, flights, page, web>>

\* steps 4 to 6 and the 201 response
Persist(r, userId, sc) ==
    LET doc == NewResult(r, userId, sc, questions)
        saved == InsertResult(results, doc)
        hooked == PostSaveQuizStats(quiz, saved, doc.quiz)
    IN /\ results' = saved
       /\ students' = IF r.participantType = "student"
                      THEN UpdateAverageScore(students, r.studentId, saved)
                      ELSE students
       /\ quiz' = ControllerQuizStats(hooked, quiz, sc.percentage)
       /\ req' = r
       /\ h' = Frame(Resp(201, "Quiz submitted successfully"), TRUE, sc,
                     quiz.attemptCount, quiz.averageScore,
                     AssignedQuizStats(quiz, sc.percentage))
       /\ category' = UpdateQuizCount(category, quiz')
       /\ UNCHANGED <<questions, body, flights, page, web>>

SubmitQuiz(r, userId) ==
    LET early == EarlyResponse(r, userId, FindQuiz(quiz, r.quizId), questions, students)
        failed == Resp(500, "Failed to submit quiz")
    IN IF early # Pass THEN Reject(r, early, FALSE, NoScores)
       ELSE IF ScoringThrows(r.answers.items) THEN Reject(r, failed, FALSE, NoScores)
       ELSE LET sc == CalculateScores(questions, r.answers.items)
            IN IF ~ValidResult(NewResult(r, userId, sc, questions))
               THEN Reject(r, failed, TRUE, sc)
               ELSE Persist(r, userId, sc)

\* POST /api/results/submit
PostSubmit(r) == SubmitQuiz(r, SubmitRouteUserId(r))

----------------------------------------------------------------------------
(* Authoring: createQuiz, the Question hooks, deleteQuiz *)

\* a question as a request body or a script hands it over; points 0 stands
\* for an absent points field, hasText for a usable questionText
Authored(hasText, points, options) ==
    [hasText |-> hasText, points |-> points, options |-> options]

\* any number of correct options passes
AtLeastOneCorrect(options) == \E i \in 1..Len(options) : options[i]

\* questionSchema.pre('validate'): exactly one option flagged correct
ExactlyOneCorrect(options) ==
    Cardinality({ i \in 1..Len(options) : options[i] }) = 1

\* the validation a Question document passes before it is written: the
\* schema's validators and the pre('validate') hook
ValidQuestion(doc) ==
    /\ doc.hasText
    /\ doc.points >= 1 /\ doc.points <= 100
    /\ Len(doc.options) = NumOptions
    /\ ExactlyOneCorrect(doc.options)

\* the document of one authored question: q.points || 1 in createQuiz, the
\* schema default of 1 on a plain save
QuestionData(q) == [q EXCEPT !.points = IF q.points = 0 THEN 1 ELSE q.points]

\* part_012: the map over the questions throws on a question without text or
\* without options
MapThrows(qs) == \E i \in 1..Len(qs) : ~qs[i].hasText \/ Len(qs[i].options) = 0

\* Question.insertMany validates every document first and inserts none when
\* one of them fails
InsertManyAccepts(qs) == \A i \in 1..Len(qs) : ValidQuestion(QuestionData(qs[i]))

\* the Question documents as stored, with their _ids
StoredQuestion(qid, q) ==
    [id |-> qid, points |-> QuestionData(q).points, options |-> q.options]

InsertMany(qs) == [i \in 1..Len(qs) |-> StoredQuestion(QuestionIds[i], qs[i])]

\* a createQuiz body: category, passPercentage (0: absent), questions,
\* isPublished
Body(cat, passPercentage, qs, isPublished) ==
    [given |-> TRUE, category |-> cat, passPercentage |-> passPercentage,
     questions |-> qs, isPublished |-> isPublished]

\* what is kept of a body once the request is served
Served(b) == [given |-> TRUE, passPercentage |-> b.passPercentage]

\* a handler other than submitQuiz answers
Answered(status, message) ==
    /\ req' = NoRequest
    /\ h' = Frame(Resp(status, message), FALSE, NoScores, 0, 0, NoQuizDoc)

\* Category.findOne by _id or by name
FindCategory(cat, name) == cat.exists /\ name = CategoryId

\* createQuiz of server/controllers/quizController.js
CreateQuiz(b) ==
    /\ ~quiz.exists
    /\ body = NoBody
    /\ body' = Served(b)
    /\ UNCHANGED <<students, results, flights, page, web>>
    /\ IF ~FindCategory(category, b.category)
       THEN /\ Answered(400, "Invalid category")
            /\ UNCHANGED <<questions, quiz, category>>
       ELSE LET saved == NewQuiz(b.isPublished)
            IN IF InsertManyAccepts(b.questions)
               THEN /\ questions' = InsertMany(b.questions)
                    /\ quiz' = UpdateStats(saved, questions')
                    /\ category' = UpdateQuizCount(category, quiz')
                    /\ Answered(201, "Quiz created successfully")
               ELSE /\ questions' = <<>>
                    /\ quiz' = saved
                    /\ category' = UpdateQuizCount(category, quiz')
                    /\ Answered(500, "Failed to create quiz")

\* createQuiz of part_012: required fields, questions mapped before the
\* insert, the quiz deleted again when the insert fails
CreateQuizChecked(b) ==
    /\ ~quiz.exists
    /\ body = NoBody
    /\ body' = Served(b)
    /\ UNCHANGED <<students, results, flights, page, web>>
    /\ IF b.passPercentage = 0
       THEN /\ Answered(400, "Missing required fields")
            /\ UNCHANGED <<questions, quiz, category>>
       ELSE IF ~FindCategory(category, b.category)
       THEN /\ Answered(400, "Invalid category")
            /\ UNCHANGED <<questions, quiz, category>>
       ELSE LET saved == NewQuiz(b.isPublished)
            IN IF Len(b.questions) = 0
               THEN /\ questions' = <<>>
                    /\ quiz' = saved
                    /\ category' = UpdateQuizCount(category, quiz')
                    /\ Answered(201, "Quiz created successfully")
               ELSE IF MapThrows(b.questions)
               THEN /\ questions' = <<>>
                    /\ quiz' = saved
                    /\ category' = UpdateQuizCount(category, quiz')
                    /\ Answered(500, "Missing question text or options")
               ELSE IF InsertManyAccepts(b.questions)
               THEN /\ questions' = InsertMany(b.questions)
                    /\ quiz' = UpdateStats(saved, questions')
                    /\ category' = UpdateQuizCount(category, quiz')
                    /\ Answered(201, "Quiz created successfully")
               ELSE /\ questions' = <<>>
                    /\ quiz' = NoQuiz
                    /\ category' = UpdateQuizCount(category, saved)
                    /\ Answered(500, "Failed to create questions")

\* the first _id no stored question has
NextQuestionId(qs) ==
    QuestionIds[CHOOSE i \in 1..Len(QuestionIds) :
        /\ ~HasQuestion(qs, QuestionIds[i])
        /\ \A j \in 1..(i - 1) : HasQuestion(qs, QuestionIds[j])]

\* question.save() with questionSchema.post('save'): a new question of the
\* quiz, or a stored one written again with the authored fields
SaveQuestion(qid, q) ==
    /\ quiz.exists
    /\ UNCHANGED <<students, results, body, flights, page, web>>
    /\ IF ~ValidQuestion(QuestionData(q))
       THEN /\ Answered(400, "Validation failed")
            /\ UNCHANGED <<questions, quiz, category>>
       ELSE /\ questions' =
                 IF HasQuestion(questions, qid)
                 THEN [i \in 1..Len(questions) |->
                          IF questions[i].id = qid THEN StoredQuestion(qid, q)
                          ELSE questions[i]]
                 ELSE Append(questions, StoredQuestion(qid, q))
            /\ quiz' = UpdateStats(quiz, questions')
            /\ category' = UpdateQuizCount(category, quiz')
            /\ Answered(200, "Question saved")

\* question.remove() with questionSchema.post('remove')
RemoveQuestion(i) ==
    /\ quiz.exists
    /\ i \in 1..Len(questions)
    /\ questions' = [j \in 1..(Len(questions) - 1) |->
                        IF j < i THEN questions[j] ELSE questions[j + 1]]
    /\ quiz' = UpdateStats(quiz, questions')
    /\ category' = UpdateQuizCount(category, quiz')
    /\ Answered(200, "Question removed")
    /\ UNCHANGED <<students, results, body, flights, page, web>>

\* quiz.createdBy.toString() !== req.userId && req.userRole !== 'admin': the
\* string of createdBy is compared with the ObjectId auth attached (or with a
\* dummy id no quiz is created by) and never equals it, so the role decides
Unauthorized(isOwner, userRole) == userRole # "admin"

\* deleteQuiz: Question.deleteMany, then Quiz.findByIdAndDelete, which runs no
\* document hook
DeleteQuiz(quizId, isOwner, userRole) ==
    /\ UNCHANGED <<students, results, category, body, flights, page, web>>
    /\ IF ~FindQuiz(quiz, quizId)
       THEN /\ Answered(404, "Quiz not found")
            /\ UNCHANGED <<questions, quiz>>
       ELSE IF Unauthorized(isOwner, userRole)
       THEN /\ Answered(403, "Unauthorized to delete this quiz")
            /\ UNCHANGED <<questions, quiz>>
       ELSE /\ questions' = <<>>
            /\ quiz' = NoQuiz
            /\ Answered(200, "Quiz and associated questions deleted successfully")

\* generateCode: a new access code and join link, then quiz.save(), whose
\* post('save') hook counts the category's published quizzes again
GenerateCode(quizId, isOwner, userRole) ==
    /\ UNCHANGED <<questions, quiz, students, results, body, flights, page, web>>
    /\ IF ~FindQuiz(quiz, quizId)
       THEN /\ Answered(404, "Quiz not found")
            /\ UNCHANGED category
       ELSE IF Unauthorized(isOwner, userRole)
       THEN /\ Answered(403, "Unauthorized")
            /\ UNCHANGED category
       ELSE /\ category' = UpdateQuizCount(category, quiz)
            /\ Answered(200, "Access code generated successfully")

\* joinQuiz of studentController.js: quiz.students is no path of quizSchema,
\* so quiz.students.includes throws once the quiz and the student are found
JoinQuiz(quizId, studentId) ==
    /\ UNCHANGED <<questions, quiz, students, results, category, body, flights, page, web>>
    /\ IF quizId = NoId \/ studentId = NoId
       THEN Answered(400, "Quiz ID and student email are required")
       ELSE IF ~FindQuiz(quiz, quizId) THEN Answered(404, "Quiz not found")
       ELSE IF studentId \notin DOMAIN students
            THEN Answered(404, "Student profile not found. Please create profile first.")
       ELSE Answered(500, "Failed to join quiz")

\* createCategory, for the one category name of the model
CreateCategory(name) ==
    /\ name = CategoryId
    /\ UNCHANGED <<questions, quiz, students, results, body, flights, page, web>>
    /\ IF FindCategory(category, name)
       THEN /\ Answered(400, "A category with this name already exists")
            /\ UNCHANGED category
       ELSE /\ category' = NewCategory
            /\ Answered(201, "Category created successfully")

\* deleteCategory: refused while a quiz uses the category
DeleteCategory(name) ==
    /\ UNCHANGED <<questions, quiz, students, results, body, flights, page, web>>
    /\ IF ~FindCategory(category, name)
       THEN /\ Answered(404, "Category not found")
            /\ UNCHANGED category
       ELSE IF quiz.exists
       THEN /\ Answered(400, "Cannot delete category")
            /\ UNCHANGED category
       ELSE /\ category' = [category EXCEPT !.exists = FALSE]
            /\ Answered(200, "Category deleted successfully")

----------------------------------------------------------------------------
(* Initial state: a quiz as authored, nobody has taken it yet *)

Init ==
    /\ questions \in QuizFixtures
    /\ quiz = UpdateStats(NewQuiz(TRUE), questions)
    /\ category = UpdateQuizCount(NewCategory, quiz)
    /\ body = NoBody
    /\ flights = NoFlights
    /\ page = NoPage
    /\ web = NoWeb
    /\ students = [s \in Students |-> [averageScore |-> 0]]
    /\ results = <<>>
    /\ req = NoRequest
    /\ h = Frame(Pass, FALSE, NoScores, 0, 0, NoQuizDoc)

----------------------------------------------------------------------------
(* ScoreSpec: the first request a freshly authored quiz receives: every       *)
(* answers array up to MaxAnswers entries, submitted by a guest student       *)

RECURSIVE SeqsUpTo(_, _)
SeqsUpTo(S, n) ==
    IF n = 0 THEN {<<>>}
    ELSE LET shorter == SeqsUpTo(S, n - 1)
         IN shorter \cup { Append(s, x) : s \in { t \in shorter : Len(t) = n - 1 }, x \in S }

QuizQuestionIds(qs) == { qs[i].id : i \in 1..Len(qs) }

AnswerItems(qs) ==
    { Answer(qid, sel) : qid \in QuizQuestionIds(qs) \cup {ForeignQuestionId},
                         sel \in SelectedOptions }

ScoreRequests(qs) ==
    { Request(QuizId, AnswersArray(items), "s1", "student", NoId) :
        items \in SeqsUpTo(AnswerItems(qs), MaxAnswers) }

ScoreNext ==
    /\ h.status = 0
    /\ \E r \in ScoreRequests(questions) : PostSubmit(r)

ScoreSpec == Init /\ [][ScoreNext]_vars

----------------------------------------------------------------------------
(* Spec: a run of submissions to the same quiz, good ones and ones the       *)
(* handler must refuse                                                        *)

\* questionSchema.methods.getCorrectIndex
GetCorrectIndex(q) == CHOOSE c \in 0..(Len(q.options) - 1) : q.options[c + 1]

\* the correct option for each of the first k questions, in quiz order
CorrectPrefix(qs, k) == [i \in 1..k |-> Answer(qs[i].id, GetCorrectIndex(qs[i]))]

\* the correct option for the last question alone
CorrectLast(qs) == <<Answer(qs[Len(qs)].id, GetCorrectIndex(qs[Len(qs)]))>>

GoodAnswers(qs) ==
    IF Len(qs) = 0 THEN {<<>>}
    ELSE { CorrectPrefix(qs, k) : k \in {0, 1, Len(qs)} } \cup {CorrectLast(qs)}

GoodRequests(qs) ==
    { Request(QuizId, AnswersArray(items), "s1", "student", NoId) : items \in GoodAnswers(qs) }

\* requests that are wrong in one respect each
BadRequests(qs) ==
    LET first == IF Len(qs) = 0 THEN ForeignQuestionId ELSE qs[1].id
        one == AnswersArray(<<Answer(first, 0)>>)
    IN { Request(NoId, one, "s1", "student", NoId),
         Request(UnknownQuizId, one, "s1", "student", NoId),
         Request(QuizId, NotAnArray, "s1", "student", NoId),
         Request(QuizId, one, "s1", "teacher", NoId),
         Request(QuizId, one, NoId, "student", NoId),
         Request(QuizId, one, UnknownStudentId, "student", NoId),
         Request(QuizId, one, NoId, "user", NoId),
         Request(QuizId, one, NoId, "user", "u1"),
         Request(QuizId, AnswersArray(<<NullAnswer>>), "s1", "student", NoId),
         Request(QuizId, AnswersArray(<<Answer(first, 4)>>), "s1", "student", NoId) }

Requests(qs) == GoodRequests(qs) \cup BadRequests(qs)

Next ==
    /\ Len(results) < MaxResults
    /\ \E r \in Requests(questions) : PostSubmit(r)

Spec == Init /\ [][Next]_vars

----------------------------------------------------------------------------
(* AuthorSpec: one quiz from its creation to its deletion, its questions      *)
(* authored, saved again and removed; well-formed questions and malformed ones *)

NoQuizInit ==
    /\ questions = <<>>
    /\ quiz = NoQuiz
    /\ category = NewCategory
    /\ body = NoBody
    /\ students = [s \in Students |-> [averageScore |-> 0]]
    /\ results = <<>>
    /\ req = NoRequest
    /\ h = Frame(Pass, FALSE, NoScores, 0, 0, NoQuizDoc)
    /\ flights = NoFlights
    /\ page = NoPage
    /\ web = NoWeb

\* the questions of the pool as an author writes them
WellFormed == { Authored(TRUE, p.points, MkOptions(p.correct)) : p \in QuestionPool }

\* questions wrong in one respect each, and one with the points left out
Malformed ==
    { Authored(TRUE, 1, <<TRUE, FALSE, FALSE>>),
      Authored(TRUE, 1, <<FALSE, TRUE, FALSE, FALSE, FALSE>>),
      Authored(TRUE, 1, <<FALSE, FALSE, FALSE, FALSE>>),
      Authored(TRUE, 1, <<TRUE, FALSE, TRUE, FALSE>>),
      Authored(TRUE, 1, <<>>),
      Authored(FALSE, 1, MkOptions(0)),
      Authored(TRUE, 101, MkOptions(0)) }

PointsLeftOut == Authored(TRUE, 0, MkOptions(3))

AuthorQuestions == WellFormed \cup Malformed \cup {PointsLeftOut}

AuthorBodies ==
    { Body(CategoryId, pp, qs, TRUE) :
        pp \in {0, 80}, qs \in SeqsUpTo(AuthorQuestions, MaxQuestions) }
    \cup { Body(UnknownCategory, 80, <<>>, TRUE) }

\* the _ids a question may be saved under: a stored one, or the next free
\* one while the quiz has room
SaveIds(qs) ==
    QuizQuestionIds(qs) \cup (IF Len(qs) < MaxQuestions THEN {NextQuestionId(qs)} ELSE {})

AuthorNext ==
    \/ \E b \in AuthorBodies : CreateQuiz(b)
    \/ \E b \in AuthorBodies : CreateQuizChecked(b)
    \/ \E qid \in SaveIds(questions), q \in AuthorQuestions : SaveQuestion(qid, q)
    \/ \E i \in 1..Len(questions) : RemoveQuestion(i)
    \/ \E isOwner \in BOOLEAN, role \in {"teacher", "admin"} :
          DeleteQuiz(QuizId, isOwner, role)

AuthorSpec == NoQuizInit /\ [][AuthorNext]_vars

----------------------------------------------------------------------------
(* LifeSpec: a quiz is created with a pass percentage of its own, taken, and  *)
(* deleted, with joins and category requests in between                       *)

\* questions of 1 and 2 points
LifeQuestions == { q \in WellFormed : q.points <= 2 }

\* the pass percentage the author asks for
OwnPassPercentage == 80

LifeBodies ==
    { Body(CategoryId, OwnPassPercentage, qs, TRUE) :
        qs \in SeqsUpTo(LifeQuestions, MaxQuestions) }

LifeNext ==
    \/ \E b \in LifeBodies : CreateQuiz(b)
    \/ \E b \in LifeBodies : CreateQuizChecked(b)
    \/ /\ Len(results) < MaxResults
       /\ \E r \in GoodRequests(questions) : PostSubmit(r)
    \/ \E sid \in Students \cup {UnknownStudentId} : JoinQuiz(QuizId, sid)
    \/ \E role \in {"teacher", "admin"} : DeleteQuiz(QuizId, TRUE, role)
    \/ CreateCategory(CategoryId)
    \/ DeleteCategory(CategoryId)

LifeSpec == NoQuizInit /\ [][LifeNext]_vars

----------------------------------------------------------------------------
(* RaceSpec: two submitQuiz requests for the same quiz served at once; the    *)
(* handler gives way at each await, and the other request may run there       *)

Slots == {1, 2}

IdleFlight == [pc |-> "idle"]

\* the request of a slot is answered; prior is the attemptCount it had loaded
Respond(s, r, frame) ==
    /\ flights' = [flights EXCEPT ![s] = [pc |-> "done", req |-> r, status |-> frame.status,
                                           prior |-> frame.priorAttemptCount]]
    /\ req' = r
    /\ h' = frame

\* the handler up to await Quiz.findById(quizId).populate('questions'); the
\* checks that follow the load are decided here, nothing they read changes
LoadQuiz(s, r) ==
    /\ flights[s].pc = "idle"
    /\ UNCHANGED <<questions, quiz, students, results, category, body, page, web>>
    /\ LET early == EarlyResponse(r, SubmitRouteUserId(r), FindQuiz(quiz, r.quizId),
                                  questions, students)
       IN IF early # Pass
          THEN Respond(s, r, Frame(early, FALSE, NoScores, 0, 0, NoQuizDoc))
          ELSE /\ flights' = [flights EXCEPT ![s] = [pc |-> "quizLoaded", req |-> r, quiz |-> quiz]]
               /\ UNCHANGED <<req, h>>

\* await Student.findById(studentId), then the scoring up to new Result
LoadStudent(s) ==
    /\ flights[s].pc = "quizLoaded"
    /\ UNCHANGED <<questions, quiz, students, results, category, body, page, web>>
    /\ LET f == flights[s]
       IN IF ScoringThrows(f.req.answers.items)
          THEN Respond(s, f.req, Frame(Resp(500, "Failed to submit quiz"), FALSE, NoScores,
                                       0, 0, NoQuizDoc))
          ELSE /\ flights' = [flights EXCEPT ![s] =
                      [pc |-> "scored", req |-> f.req, quiz |-> f.quiz,
                       student |-> students[f.req.studentId],
                       sc |-> CalculateScores(questions, f.req.answers.items)]]
               /\ UNCHANGED <<req, h>>

\* await result.save(): validation and the insert
SaveResult(s) ==
    /\ flights[s].pc = "scored"
    /\ UNCHANGED <<questions, quiz, students, category, body, page, web>>
    /\ LET f == flights[s]
           doc == NewResult(f.req, SubmitRouteUserId(f.req), f.sc, questions)
       IN IF ~ValidResult(doc)
          THEN /\ Respond(s, f.req, Frame(Resp(500, "Failed to submit quiz"), TRUE, f.sc,
                                          0, 0, NoQuizDoc))
               /\ UNCHANGED results
          ELSE /\ results' = InsertResult(results, doc)
               /\ flights' = [flights EXCEPT ![s].pc = "inserted"]
               /\ UNCHANGED <<req, h>>

\* resultSchema.post('save'): await Result.find({ quiz })
HookFind(s) ==
    /\ flights[s].pc = "inserted"
    /\ flights' = [flights EXCEPT ![s] =
           [pc |-> "hookFound", req |-> @.req, quiz |-> @.quiz, student |-> @.student,
            sc |-> @.sc, found |-> PostSaveQuizStats(@.quiz, results, QuizId)]]
    /\ UNCHANGED <<questions, quiz, students, results, req, h, category, body, page, web>>

\* resultSchema.post('save'): await Quiz.findByIdAndUpdate
HookUpdate(s) ==
    /\ flights[s].pc = "hookFound"
    /\ quiz' = IF quiz.exists
               THEN [quiz EXCEPT !.attemptCount = flights[s].found.attemptCount,
                                 !.averageScore = flights[s].found.averageScore]
               ELSE quiz
    /\ flights' = [flights EXCEPT ![s].pc = "hooked"]
    /\ UNCHANGED <<questions, students, results, req, h, category, body, page, web>>

\* updateAverageScore: await Result.find({ student })
StudentFind(s) ==
    /\ flights[s].pc = "hooked"
    /\ flights' = [flights EXCEPT ![s] =
           [pc |-> "studentFound", req |-> @.req, quiz |-> @.quiz, student |-> @.student,
            sc |-> @.sc,
            average |-> UpdateAverageScore(students, @.req.studentId, results)
                            [@.req.studentId].averageScore]]
    /\ UNCHANGED <<questions, quiz, students, results, req, h, category, body, page, web>>

\* updateAverageScore: await this.save() on the Student loaded in step 2
StudentSave(s) ==
    /\ flights[s].pc = "studentFound"
    /\ LET f == flights[s]
       IN students' = [students EXCEPT ![f.req.studentId].averageScore =
                          SavePath(f.student.averageScore, f.average, @)]
    /\ flights' = [flights EXCEPT ![s].pc = "studentSaved"]
    /\ UNCHANGED <<questions, quiz, results, req, h, category, body, page, web>>

\* step 6: the assignments, await quiz.save(), and the 201 response
QuizSave(s) ==
    /\ flights[s].pc = "studentSaved"
    /\ LET f == flights[s]
       IN /\ quiz' = IF quiz.exists
                     THEN ControllerQuizStats(quiz, f.quiz, f.sc.percentage)
                     ELSE quiz
          /\ Respond(s, f.req, Frame(Resp(201, "Quiz submitted successfully"), TRUE, f.sc,
                                     f.quiz.attemptCount, f.quiz.averageScore,
                                     AssignedQuizStats(f.quiz, f.sc.percentage)))
    /\ category' = UpdateQuizCount(category, quiz')
    /\ UNCHANGED <<questions, students, results, body, page, web>>

RaceInit ==
    /\ questions \in QuizFixtures
    /\ quiz = UpdateStats(NewQuiz(TRUE), questions)
    /\ category = UpdateQuizCount(NewCategory, quiz)
    /\ body = NoBody
    /\ students = [s \in Students |-> [averageScore |-> 0]]
    /\ results = <<>>
    /\ req = NoRequest
    /\ h = Frame(Pass, FALSE, NoScores, 0, 0, NoQuizDoc)
    /\ flights = [s \in Slots |-> IdleFlight]
    /\ page = NoPage
    /\ web = NoWeb

RaceNext ==
    \E s \in Slots :
        \/ \E r \in GoodRequests(questions) : LoadQuiz(s, r)
        \/ LoadStudent(s)
        \/ SaveResult(s)
        \/ HookFind(s)
        \/ HookUpdate(s)
        \/ StudentFind(s)
        \/ StudentSave(s)
        \/ QuizSave(s)

RaceSpec == RaceInit /\ [][RaceNext]_vars

----------------------------------------------------------------------------
(* TimerSpec: the quiz-taking page (part_017) from the start screen on       *)

\* the page once loadQuiz has shown the start screen of a quiz with a
\* timeLimit in minutes and count questions; a timeLimit of null (the schema's
\* "no limit") multiplies like 0
OpenPage(timeLimit, count) ==
    [screen |-> "start", timeLimit |-> timeLimit, count |-> count,
     currentQuestionIndex |-> 0, secondsRemaining |-> 0, timerInterval |-> FALSE,
     submitted |-> FALSE, pending |-> FALSE, timeTaken |-> 0]

\* the countdown stops only below zero
TimeIsUpBelowZero(seconds) == seconds < 0

\* if (secondsRemaining <= 0)
TimeIsUp(seconds) == seconds <= 0

\* submitQuiz of the page up to its fetch: the interval cleared, the result
\* screen shown, the payload built
PageSubmitQuiz(p) ==
    [p EXCEPT !.timerInterval = FALSE,
              !.screen = "result",
              !.pending = TRUE,
              !.submitted = TRUE,
              !.timeTaken = p.timeLimit * 60 - p.secondsRemaining]

PageOnly == UNCHANGED <<questions, quiz, students, results, req, h, category, body, flights, web>>

\* startQuiz, the click handler of startBtn
StartQuiz ==
    /\ page.screen = "start"
    /\ page' = [page EXCEPT !.screen = "question",
                            !.secondsRemaining = page.timeLimit * 60,
                            !.timerInterval = TRUE]
    /\ PageOnly

\* the callback of setInterval; alert returns and submitQuiz runs in the
\* same call
Tick ==
    /\ page.screen # "closed"
    /\ page.timerInterval
    /\ LET ticked == [page EXCEPT !.secondsRemaining = page.secondsRemaining - 1]
       IN page' = IF TimeIsUp(ticked.secondsRemaining)
                  THEN PageSubmitQuiz(ticked)
                  ELSE ticked
    /\ PageOnly

\* nextQuestion
NextQuestion ==
    /\ page.screen = "question"
    /\ page.currentQuestionIndex < page.count - 1
    /\ page' = [page EXCEPT !.currentQuestionIndex = @ + 1]
    /\ PageOnly

\* prevQuestion
PrevQuestion ==
    /\ page.screen = "question"
    /\ page.currentQuestionIndex > 0
    /\ page' = [page EXCEPT !.currentQuestionIndex = @ - 1]
    /\ PageOnly

\* the click handler of submitBtn, shown on the last question
PressSubmit ==
    /\ page.screen = "question"
    /\ page.currentQuestionIndex = page.count - 1
    /\ page' = PageSubmitQuiz(page)
    /\ PageOnly

\* the fetch resolves with an ok response: the page is about to leave
SubmissionSucceeds ==
    /\ page.screen = "result"
    /\ page.pending
    /\ page' = [page EXCEPT !.pending = FALSE, !.screen = "leaving"]
    /\ PageOnly

\* the fetch fails or the response is not ok: the question screen is shown
\* again, the interval stays cleared
SubmissionFails ==
    /\ page.screen = "result"
    /\ page.pending
    /\ page' = [page EXCEPT !.pending = FALSE, !.screen = "question"]
    /\ PageOnly

TimerInit ==
    /\ questions = <<>>
    /\ quiz = NoQuiz
    /\ category = NewCategory
    /\ body = NoBody
    /\ students = [s \in Students |-> [averageScore |-> 0]]
    /\ results = <<>>
    /\ req = NoRequest
    /\ h = Frame(Pass, FALSE, NoScores, 0, 0, NoQuizDoc)
    /\ flights = NoFlights
    /\ web = NoWeb
    /\ page \in { OpenPage(t, n) : t \in 0..MaxTimeLimit, n \in 1..MaxQuestions }

TimerNext ==
    \/ StartQuiz
    \/ Tick
    \/ NextQuestion
    \/ PrevQuestion
    \/ PressSubmit
    \/ SubmissionSucceeds
    \/ SubmissionFails

\* setInterval keeps calling its callback until the interval is cleared
TimerSpec == TimerInit /\ [][TimerNext]_vars /\ WF_vars(Tick)

----------------------------------------------------------------------------
(* TakeSpec: the quiz-taking page and the server behind it: the page's        *)
(* request, sent by the submit button or by the timeout, is served once        *)

\* the fetch of the page's submitQuiz reaches POST /api/results/submit: the
\* payload carries quizId, answers, timeTaken, studentId and participantType
Deliver ==
    /\ page.screen = "result"
    /\ page.pending
    /\ req = NoRequest
    /\ \E r \in GoodRequests(questions) : PostSubmit(r)

\* the response of the served request is ok: the page is about to leave
ResponseOk ==
    /\ h.status = 201
    /\ SubmissionSucceeds

TakeInit ==
    /\ questions \in { MkQuestions(s) : s \in UNION { [1..n -> { p \in QuestionPool : p.points = 1 }] : n \in 1..MaxQuestions } }
    /\ quiz = UpdateStats(NewQuiz(TRUE), questions)
    /\ category = UpdateQuizCount(NewCategory, quiz)
    /\ body = NoBody
    /\ flights = NoFlights
    /\ web = NoWeb
    /\ students = [s \in Students |-> [averageScore |-> 0]]
    /\ results = <<>>
    /\ req = NoRequest
    /\ h = Frame(Pass, FALSE, NoScores, 0, 0, NoQuizDoc)
    /\ page \in { OpenPage(t, Len(questions)) : t \in 1..MaxTimeLimit }

TakeNext ==
    \/ StartQuiz
    \/ Tick
    \/ NextQuestion
    \/ PrevQuestion
    \/ PressSubmit
    \/ Deliver
    \/ ResponseOk

TakeSpec == TakeInit /\ [][TakeNext]_vars

----------------------------------------------------------------------------
(* AdminSpec: sessions, the auth middleware and adminOnly in front of the     *)
(* admin routes of the categories                                             *)

Admins == {"a1"}                \* _ids of the User documents registered as admin
Teachers == {"t1", "t2"}        \* _ids of the User documents registered as teacher
Accounts == Admins \cup Teachers

DummyTeacherId == "dummy-teacher-id-123"
DummyAdminId == "dummy-admin-id-456"

NoSession == [userId |-> NoId, role |-> NoId]

\* the User documents after registration
RegisteredUsers ==
    [u \in Accounts |-> [exists |-> TRUE, isActive |-> TRUE,
                         role |-> IF u \in Admins THEN "admin" ELSE "teacher"]]

\* a request other than one to an admin route is answered
Replied(w, status) == [w EXCEPT !.res = status, !.ran = FALSE, !.by = NoId]

WebOnly == UNCHANGED <<questions, quiz, students, results, req, h, category, body, flights, page>>

\* login of part_013 with the password of a stored user
Login(u) ==
    /\ u \in Accounts
    /\ LET user == web.users[u]
       IN web' = IF ~user.exists THEN Replied(web, 401)
                 ELSE IF ~user.isActive THEN Replied(web, 403)
                 ELSE [Replied(web, 200) EXCEPT !.session = [userId |-> u, role |-> user.role]]
    /\ WebOnly

\* login of part_013 with the credentials written into the handler
DummyLogin(id) ==
    /\ id \in {DummyTeacherId, DummyAdminId}
    /\ web' = [Replied(web, 200) EXCEPT !.session =
                  [userId |-> id, role |-> IF id = DummyAdminId THEN "admin" ELSE "teacher"]]
    /\ WebOnly

\* logout: req.session.destroy
Logout ==
    /\ web' = [Replied(web, 200) EXCEPT !.session = NoSession]
    /\ WebOnly

\* updateTeacher with isActive in the body
UpdateTeacher(u, isActive) ==
    /\ u \in Teachers
    /\ web' = IF web.users[u].exists
              THEN [Replied(web, 200) EXCEPT !.users[u].isActive = isActive]
              ELSE Replied(web, 404)
    /\ WebOnly

\* deleteTeacher
DeleteTeacher(u) ==
    /\ u \in Teachers
    /\ web' = IF web.users[u].exists
              THEN [Replied(web, 200) EXCEPT !.users[u].exists = FALSE]
              ELSE Replied(web, 404)
    /\ WebOnly

\* auth: the status it answers with (0: next()), the role it attaches to the
\* request, and whether it destroys the session
Auth(session, users) ==
    IF session.userId = NoId
    THEN [status |-> 401, userRole |-> NoId, destroy |-> FALSE]
    ELSE IF session.userId \in {DummyTeacherId, DummyAdminId}
    THEN [status |-> 0, userRole |-> session.role, destroy |-> FALSE]
    ELSE IF ~users[session.userId].exists
    THEN [status |-> 401, userRole |-> NoId, destroy |-> TRUE]
    ELSE IF ~users[session.userId].isActive
    THEN [status |-> 403, userRole |-> NoId, destroy |-> TRUE]
    ELSE [status |-> 0, userRole |-> users[session.userId].role, destroy |-> FALSE]

\* requireRole(allowedRoles) of part_001: req.user?.role || req.userRole
RequireRole(roles, userRole) ==
    IF userRole = NoId THEN 401
    ELSE IF userRole \notin roles THEN 403
    ELSE 0

\* adminOnly = requireRole('admin')
AdminOnly(userRole) == RequireRole({"admin"}, userRole)

\* a request to router.post('/', auth, adminOnly, ...): the middleware chain
\* and whether the handler behind it runs
AdminRequest ==
    /\ LET a == Auth(web.session, web.users)
           status == IF a.status # 0 THEN a.status ELSE AdminOnly(a.userRole)
       IN web' = [web EXCEPT !.res = IF status = 0 THEN 200 ELSE status,
                             !.ran = (status = 0),
                             !.by = web.session.userId,
                             !.session = IF a.destroy THEN NoSession ELSE @]
    /\ WebOnly

AdminInit ==
    /\ questions = <<>>
    /\ quiz = NoQuiz
    /\ category = NewCategory
    /\ body = NoBody
    /\ students = [s \in Students |-> [averageScore |-> 0]]
    /\ results = <<>>
    /\ req = NoRequest
    /\ h = Frame(Pass, FALSE, NoScores, 0, 0, NoQuizDoc)
    /\ flights = NoFlights
    /\ page = NoPage
    /\ web = [open |-> TRUE, users |-> RegisteredUsers, session |-> NoSession,
              res |-> 0, ran |-> FALSE, by |-> NoId]

AdminNext ==
    \/ \E u \in Accounts : Login(u)
    \/ \E id \in {DummyTeacherId, DummyAdminId} : DummyLogin(id)
    \/ Logout
    \/ \E u \in Teachers, isActive \in BOOLEAN : UpdateTeacher(u, isActive)
    \/ \E u \in Teachers : DeleteTeacher(u)
    \/ AdminRequest

AdminSpec == AdminInit /\ [][AdminNext]_vars

----------------------------------------------------------------------------
(* ViewSpec: the results of a quiz asked for by logged-in users               *)
(* (GET /api/results/quiz/:quizId behind auth), between submissions            *)

\* createdBy: req.userId of the request that created the stored quiz
CreatedBy == "t1"

\* JavaScript values: an ObjectId and a string are different values even when
\* the string is the ObjectId's hex form
ObjectIdOf(id) == [type |-> "ObjectId", hex |-> id]
StringOf(chars) == [type |-> "string", hex |-> chars]

\* value.toString()
ToString(value) == StringOf(value.hex)

\* a !== b
StrictNotEqual(a, b) == a # b

\* req.userId as auth leaves it: the session's string for the dummy users,
\* user._id of the loaded document otherwise
AuthUserId(session) ==
    IF session.userId \in {DummyTeacherId, DummyAdminId}
    THEN StringOf(session.userId)
    ELSE ObjectIdOf(session.userId)

\* if (quiz.createdBy.toString() !== req.userId)
NotQuizCreator(createdBy, userId) == StrictNotEqual(ToString(ObjectIdOf(createdBy)), userId)

\* Result.find({ quiz: quizId }).sort({ completedAt: -1 })
NewestFirst(rs) == [i \in 1..Len(rs) |-> rs[Len(rs) + 1 - i]]

\* router.get('/quiz/:quizId', auth, resultController.getResultsByQuiz)
GetResultsByQuiz(quizId) ==
    /\ LET a == Auth(web.session, web.users)
           asked == [web EXCEPT !.by = web.session.userId, !.quizId = quizId,
                                !.ran = (a.status = 0), !.data = <<>>,
                                !.session = IF a.destroy THEN NoSession ELSE @]
       IN web' = IF a.status # 0 THEN [asked EXCEPT !.res = a.status]
                 ELSE IF ~FindQuiz(quiz, quizId) THEN [asked EXCEPT !.res = 404]
                 ELSE IF NotQuizCreator(CreatedBy, AuthUserId(web.session))
                      THEN [asked EXCEPT !.res = 403]
                 ELSE [asked EXCEPT !.res = 200,
                                    !.data = NewestFirst(ResultsOfQuiz(results, quizId))]
    /\ WebOnly

ViewInit ==
    /\ questions \in { MkQuestions(<<q>>) : q \in { p \in QuestionPool : p.points <= 2 } }
    /\ quiz = UpdateStats(NewQuiz(TRUE), questions)
    /\ category = UpdateQuizCount(NewCategory, quiz)
    /\ body = NoBody
    /\ flights = NoFlights
    /\ page = NoPage
    /\ students = [s \in Students |-> [averageScore |-> 0]]
    /\ results = <<>>
    /\ req = NoRequest
    /\ h = Frame(Pass, FALSE, NoScores, 0, 0, NoQuizDoc)
    /\ web = [open |-> TRUE, users |-> RegisteredUsers, session |-> NoSession,
              res |-> 0, ran |-> FALSE, by |-> NoId, quizId |-> NoId, data |-> <<>>]

ViewNext ==
    \/ \E u \in Accounts : Login(u)
    \/ \E id \in {DummyTeacherId, DummyAdminId} : DummyLogin(id)
    \/ Logout
    \/ \E u \in Teachers : DeleteTeacher(u)
    \/ /\ Len(results) < MaxResults
       /\ \E r \in GoodRequests(questions) : PostSubmit(r)
    \/ DeleteQuiz(QuizId, TRUE, "admin")
    \/ \E quizId \in {QuizId, UnknownQuizId} : GetResultsByQuiz(quizId)

ViewSpec == ViewInit /\ [][ViewNext]_vars

----------------------------------------------------------------------------
(* ListSpec: GET /api/quizzes, a public route, asked by anybody for the       *)
(* quizzes stored by createQuiz, published or not                             *)

\* difficulty of a quiz created without one: the schema default
QuizDifficulty == "medium"

\* req.query of getQuizzes; NoId for a parameter left out
Query(cat, difficulty, teacher) ==
    [category |-> cat, difficulty |-> difficulty, teacher |-> teacher]

\* the filter getQuizzes builds from req.query, applied to the stored quiz
QueryMatches(q, query) ==
    /\ q.exists
    /\ query.category # NoId => query.category = CategoryId
    /\ query.difficulty # NoId => query.difficulty = QuizDifficulty
    /\ query.teacher # NoId => query.teacher = CreatedBy
    /\ query.teacher = NoId => q.isPublished

\* Quiz.find(query)
FindQuizzes(q, query) == IF QueryMatches(q, query) THEN <<q>> ELSE <<>>

\* router.get('/', quizController.getQuizzes): caller is the user of the
\* session the request carries, NoId without one; the handler does not read it
GetQuizzes(caller, query) ==
    /\ web' = [open |-> TRUE, by |-> caller, query |-> query, res |-> 200,
               quizzes |-> FindQuizzes(quiz, query)]
    /\ WebOnly

Queries ==
    { Query(c, d, t) : c \in {NoId, CategoryId, UnknownCategory},
                       d \in {NoId, QuizDifficulty, "hard"},
                       t \in {NoId} \cup Teachers }

ListBodies ==
    { Body(CategoryId, OwnPassPercentage, qs, isPublished) :
        qs \in SeqsUpTo({ q \in WellFormed : q.points = 1 }, 1), isPublished \in BOOLEAN }

ListInit ==
    /\ questions = <<>>
    /\ quiz = NoQuiz
    /\ category = NewCategory
    /\ body = NoBody
    /\ students = [s \in Students |-> [averageScore |-> 0]]
    /\ results = <<>>
    /\ req = NoRequest
    /\ h = Frame(Pass, FALSE, NoScores, 0, 0, NoQuizDoc)
    /\ flights = NoFlights
    /\ page = NoPage
    /\ web = [open |-> TRUE, by |-> NoId, query |-> Query(NoId, NoId, NoId), res |-> 0,
              quizzes |-> <<>>]

ListNext ==
    \/ \E b \in ListBodies : CreateQuiz(b)
    \/ DeleteQuiz(QuizId, TRUE, "admin")
    \/ \E caller \in {NoId} \cup Teachers, query \in Queries : GetQuizzes(caller, query)

ListSpec == ListInit /\ [][ListNext]_vars

----------------------------------------------------------------------------
(* CountSpec: quizzes created published or as drafts, given access codes and  *)
(* deleted, and the quizCount of their category                               *)

CountBodies ==
    { Body(CategoryId, pp, qs, isPublished) :
        pp \in {0, OwnPassPercentage},
        qs \in SeqsUpTo(LifeQuestions \cup {Authored(TRUE, 1, <<>>)}, MaxQuestions),
        isPublished \in BOOLEAN }

CountNext ==
    \/ \E b \in CountBodies : CreateQuiz(b)
    \/ \E b \in CountBodies : CreateQuizChecked(b)
    \/ \E isOwner \in BOOLEAN, role \in {"teacher", "admin"} :
          GenerateCode(QuizId, isOwner, role)
    \/ \E isOwner \in BOOLEAN, role \in {"teacher", "admin"} :
          DeleteQuiz(QuizId, isOwner, role)

CountSpec == NoQuizInit /\ [][CountNext]_vars

----------------------------------------------------------------------------
(* NameSpec: the categories collection by name: createCategory,               *)
(* updateCategory and seedCategories; category holds the stored documents in  *)
(* the order of their creation, a document's position being its _id          *)

\* a category name: its text, the text with the letter case folded, and how
\* the text reads as a regular expression: "plain" text has no special
\* character, "group" text has parentheses (the pattern A(1) matches the text
\* A1, not A(1)), "invalid" text is no pattern at all (C++: nothing to repeat)
Name(text, folded, kind) == [text |-> text, folded |-> folded, kind |-> kind]

Science == Name("Science", "science", "plain")
History == Name("History", "history", "plain")

Names ==
    { Science, Name("science", "science", "plain"), History,
      Name("A(1)", "a(1)", "group"), Name("a(1)", "a(1)", "group"),
      Name("C++", "c++", "invalid") }

\* new RegExp(`^${name}$`, 'i') throws a SyntaxError
RegExpThrows(name) == name.kind = "invalid"

\* { name: { $regex: new RegExp(`^${name}$`, 'i') } } matches the stored name
RegExpMatches(name, stored) == name.kind = "plain" /\ stored.folded = name.folded

\* the unique index on name: equal texts, letter case included
UniqueIndexRefuses(docs, name, self) ==
    \E i \in 1..Len(docs) : i # self /\ docs[i].text = name.text

CategoryOnly == UNCHANGED <<questions, quiz, students, results, body, flights, page, web>>

\* createCategory with a name of the collection's own
CreateNamedCategory(name) ==
    /\ CategoryOnly
    /\ LET docs == category.docs
       IN IF RegExpThrows(name)
          THEN /\ Answered(500, "Failed to create category")
               /\ UNCHANGED category
          ELSE IF \E i \in 1..Len(docs) : RegExpMatches(name, docs[i])
          THEN /\ Answered(400, "A category with this name already exists")
               /\ UNCHANGED category
          ELSE IF UniqueIndexRefuses(docs, name, 0)
          THEN /\ Answered(400, "A category with this name already exists")
               /\ UNCHANGED category
          ELSE /\ category' = [category EXCEPT !.docs = Append(docs, name)]
               /\ Answered(201, "Category created successfully")

\* updateCategory with a name in the body
UpdateCategory(id, name) ==
    /\ CategoryOnly
    /\ LET docs == category.docs
       IN IF id \notin 1..Len(docs)
          THEN /\ Answered(404, "Category not found")
               /\ UNCHANGED category
          ELSE IF name # docs[id] /\ RegExpThrows(name)
          THEN /\ Answered(500, "Failed to update category")
               /\ UNCHANGED category
          ELSE IF name # docs[id] /\ \E i \in 1..Len(docs) : i # id /\ RegExpMatches(name, docs[i])
          THEN /\ Answered(400, "A category with this name already exists")
               /\ UNCHANGED category
          ELSE IF UniqueIndexRefuses(docs, name, id)
          THEN /\ Answered(500, "Failed to update category")
               /\ UNCHANGED category
          ELSE /\ category' = [category EXCEPT !.docs[id] = name]
               /\ Answered(200, "Category updated successfully")

\* the first names of defaultCategories
DefaultCategories == <<Science, History>>

\* Category.findOne({ name: cat.name })
FindByName(docs, name) == \E i \in 1..Len(docs) : docs[i].text = name.text

\* the loop of seedCategories over defaultCategories from position k
RECURSIVE Seeded(_, _)
Seeded(docs, k) ==
    IF k > Len(DefaultCategories) THEN docs
    ELSE Seeded(IF FindByName(docs, DefaultCategories[k]) THEN docs
                ELSE Append(docs, DefaultCategories[k]), k + 1)

\* seedCategories
SeedCategories ==
    /\ CategoryOnly
    /\ category' = [category EXCEPT !.docs = Seeded(category.docs, 1)]
    /\ Answered(200, "Categories seeded")

NameInit ==
    /\ questions = <<>>
    /\ quiz = NoQuiz
    /\ category = [docs |-> <<>>]
    /\ body = NoBody
    /\ students = [s \in Students |-> [averageScore |-> 0]]
    /\ results = <<>>
    /\ req = NoRequest
    /\ h = Frame(Pass, FALSE, NoScores, 0, 0, NoQuizDoc)
    /\ flights = NoFlights
    /\ page = NoPage
    /\ web = NoWeb

NameNext ==
    \/ /\ Len(category.docs) < MaxCategories
       /\ \E name \in Names : CreateNamedCategory(name)
    \/ \E id \in 1..(Len(category.docs) + 1), name \in Names : UpdateCategory(id, name)
    \/ SeedCategories

NameSpec == NameInit /\ [][NameNext]_vars

----------------------------------------------------------------------------
(* RefSpec: a createQuiz request and a deleteCategory request served at once, *)
(* each giving way at its awaits; flights holds where each handler stands     *)

RefIdle == [pc |-> "idle", body |-> NoBody]

RefOnly == UNCHANGED <<students, results, page, web>>

\* createQuiz up to await Category.findOne
CreateQuizFind(b) ==
    /\ flights.createQuiz.pc = "idle"
    /\ ~quiz.exists
    /\ body = NoBody
    /\ body' = Served(b)
    /\ RefOnly
    /\ UNCHANGED <<questions, quiz, category>>
    /\ IF ~FindCategory(category, b.category)
       THEN /\ Answered(400, "Invalid category")
            /\ UNCHANGED flights
       ELSE /\ flights' = [flights EXCEPT !.createQuiz = [pc |-> "found", body |-> b]]
            /\ UNCHANGED <<req, h>>

\* createQuiz from await quiz.save() on: the post('save') hook, the questions
\* inserted, the response
CreateQuizSave ==
    /\ flights.createQuiz.pc = "found"
    /\ flights' = [flights EXCEPT !.createQuiz = RefIdle]
    /\ RefOnly
    /\ UNCHANGED body
    /\ LET b == flights.createQuiz.body
           saved == NewQuiz(b.isPublished)
       IN IF InsertManyAccepts(b.questions)
          THEN /\ questions' = InsertMany(b.questions)
               /\ quiz' = UpdateStats(saved, questions')
               /\ category' = UpdateQuizCount(category, quiz')
               /\ Answered(201, "Quiz created successfully")
          ELSE /\ questions' = <<>>
               /\ quiz' = saved
               /\ category' = UpdateQuizCount(category, quiz')
               /\ Answered(500, "Failed to create quiz")

\* deleteCategory up to await Category.findById
DeleteCategoryFind(name) ==
    /\ flights.deleteCategory.pc = "idle"
    /\ RefOnly
    /\ UNCHANGED <<questions, quiz, category, body>>
    /\ IF ~FindCategory(category, name)
       THEN /\ Answered(404, "Category not found")
            /\ UNCHANGED flights
       ELSE /\ flights' = [flights EXCEPT !.deleteCategory.pc = "found"]
            /\ UNCHANGED <<req, h>>

\* deleteCategory: await Quiz.countDocuments({ category: category._id })
DeleteCategoryCount ==
    /\ flights.deleteCategory.pc = "found"
    /\ RefOnly
    /\ UNCHANGED <<questions, quiz, category, body>>
    /\ IF quiz.exists
       THEN /\ Answered(400, "Cannot delete category")
            /\ flights' = [flights EXCEPT !.deleteCategory.pc = "idle"]
       ELSE /\ flights' = [flights EXCEPT !.deleteCategory.pc = "counted"]
            /\ UNCHANGED <<req, h>>

\* deleteCategory: await Category.findByIdAndDelete and the response
DeleteCategoryRemove ==
    /\ flights.deleteCategory.pc = "counted"
    /\ flights' = [flights EXCEPT !.deleteCategory.pc = "idle"]
    /\ RefOnly
    /\ UNCHANGED <<questions, quiz, body>>
    /\ category' = [category EXCEPT !.exists = FALSE]
    /\ Answered(200, "Category deleted successfully")

\* deleteQuiz while the other two may be in flight
DeleteQuizBetween ==
    /\ UNCHANGED flights
    /\ quiz.exists
    /\ questions' = <<>>
    /\ quiz' = NoQuiz
    /\ Answered(200, "Quiz and associated questions deleted successfully")
    /\ RefOnly
    /\ UNCHANGED <<category, body>>

RefBodies ==
    { Body(cat, OwnPassPercentage, qs, isPublished) :
        cat \in {CategoryId, UnknownCategory},
        qs \in SeqsUpTo(LifeQuestions, MaxQuestions), isPublished \in BOOLEAN }

RefInit ==
    /\ questions = <<>>
    /\ quiz = NoQuiz
    /\ category = NewCategory
    /\ body = NoBody
    /\ students = [s \in Students |-> [averageScore |-> 0]]
    /\ results = <<>>
    /\ req = NoRequest
    /\ h = Frame(Pass, FALSE, NoScores, 0, 0, NoQuizDoc)
    /\ flights = [createQuiz |-> RefIdle, deleteCategory |-> [pc |-> "idle"]]
    /\ page = NoPage
    /\ web = NoWeb

RefNext ==
    \/ \E b \in RefBodies : CreateQuizFind(b)
    \/ CreateQuizSave
    \/ DeleteCategoryFind(CategoryId)
    \/ DeleteCategoryCount
    \/ DeleteCategoryRemove
    \/ DeleteQuizBetween

RefSpec == RefInit /\ [][RefNext]_vars

----------------------------------------------------------------------------
(* Vocabulary of the properties *)

\* the answers array of the request served last
Items == req.answers.items

Pos(qs, qid) == CHOOSE i \in 1..Len(qs) : qs[i].id = qid

\* the nearest integer to a / n, a tie going up
RoundHalfUp(a, n) ==
    CHOOSE k \in 0..((a \div n) + 1) : 2 * n * k <= 2 * a + n /\ 2 * a + n < 2 * n * (k + 1)

RECURSIVE SumOfPoints(_, _)
SumOfPoints(qs, n) == IF n = 0 THEN 0 ELSE SumOfPoints(qs, n - 1) + qs[n].points

\* no question id occurs twice in the submission
AtMostOncePerQuestion(items) ==
    \A i, j \in 1..Len(items) : items[i].questionId = items[j].questionId => i = j

\* every answer is for a question of the quiz
OnlyQuizQuestions(qs, items) ==
    \A i \in 1..Len(items) : items[i].questionId \in QuizQuestionIds(qs)

\* the answers that select one of the four options
Explicit(items) == { i \in 1..Len(items) : items[i].selectedOption \in 0..3 }

\* the answers that select the option flagged correct
Right(qs, items) ==
    { i \in Explicit(items) :
        /\ items[i].questionId \in QuizQuestionIds(qs)
        /\ qs[Pos(qs, items[i].questionId)].options[items[i].selectedOption + 1] }

\* the submission with every answer removed that a later answer to the same
\* question supersedes
LastWins(items) ==
    LET keep == { i \in 1..Len(items) :
                    \A j \in (i + 1)..Len(items) : items[j].questionId # items[i].questionId }
        RECURSIVE Pick(_)
        Pick(n) == IF n = 0 THEN <<>>
                   ELSE IF n \in keep THEN Append(Pick(n - 1), items[n]) ELSE Pick(n - 1)
    IN Pick(Len(items))

\* the submission without the answers to questions that are not the quiz's
WithoutForeign(qs, items) == SelectSeq(items, LAMBDA a : a.questionId \in QuizQuestionIds(qs))

\* the submissions that hold the same answers in another order
Reorderings(items) ==
    { [i \in 1..Len(items) |-> items[f[i]]] :
        f \in { g \in [1..Len(items) -> 1..Len(items)] :
                  \A i, j \in 1..Len(items) : g[i] = g[j] => i = j } }

\* the counts and totals of a score report, without the breakdown
Totals(sc) ==
    <<sc.scorePoints, sc.totalPoints, sc.percentage, sc.correctAnswers,
      sc.incorrectAnswers, sc.unanswered>>

----------------------------------------------------------------------------
(* Properties of the scoring, under ScoreSpec *)

\* C1: the percentage submitQuiz computes is an integer in [0, 100], whatever
\* the answers array holds, and is 0 when totalPoints is 0.
C1_PercentageWithinBounds ==
    h.scored =>
        /\ h.scores.percentage \in 0..100
        /\ (h.scores.totalPoints = 0 => h.scores.percentage = 0)

\* C2: a question counts as incorrect only when the submission holds an option
\* 0..3 for it that is not the correct one; an answer with -1 or an index out of
\* range counts as unanswered, as does a question with no answer. Stated for
\* stored Results of submissions with at most one answer per question, all for
\* questions of the quiz.
C2_IncorrectOnlyWhenAnswered ==
    (h.status = 201 /\ AtMostOncePerQuestion(Items) /\ OnlyQuizQuestions(questions, Items)) =>
        /\ h.scores.incorrectAnswers =
              Cardinality(Explicit(Items) \ Right(questions, Items))
        /\ h.scores.unanswered = Len(questions) - Cardinality(Explicit(Items))

\* C3: the breakdown of a stored Result holds exactly one entry for every
\* question of the quiz, answered or not, and no other entry.
C3_BreakdownCoversQuiz ==
    h.status = 201 =>
        LET b == results[Len(results)].answers
        IN /\ \A i \in 1..Len(b) : b[i].question \in QuizQuestionIds(questions)
           /\ \A k \in 1..Len(questions) :
                 Cardinality({ i \in 1..Len(b) : b[i].question = questions[k].id }) = 1

\* C4: the breakdown is in the quiz's question order whatever the order of the
\* submitted answers, so the same answers in another order give the same score
\* report, breakdown included. Stated for submissions with at most one answer
\* per question, all for questions of the quiz.
C4_OrderIndependent ==
    (h.scored /\ AtMostOncePerQuestion(Items) /\ OnlyQuizQuestions(questions, Items)) =>
        /\ \A i, j \in 1..Len(h.scores.resultAnswers) :
              i < j => Pos(questions, h.scores.resultAnswers[i].question)
                         <= Pos(questions, h.scores.resultAnswers[j].question)
        /\ \A p \in Reorderings(Items) : CalculateScores(questions, p) = h.scores

\* C5: of several answers to one question only the last is scored: score and
\* counts are those of the submission without the superseded answers. Stated
\* for submissions whose answers are all for questions of the quiz.
C5_LastAnswerWins ==
    (h.scored /\ OnlyQuizQuestions(questions, Items)) => Totals(h.scores) = Totals(CalculateScores(questions, LastWins(Items)))

\* C6: answers whose question is not the quiz's change nothing: the report is
\* that of the submission without them.
C6_ForeignIgnored ==
    h.scored => h.scores = CalculateScores(questions, WithoutForeign(questions, Items))

\* the submission gives the correct option for every question, once each
AllCorrect(qs, items) ==
    /\ Len(items) = Len(qs)
    /\ AtMostOncePerQuestion(items)
    /\ Right(qs, items) = 1..Len(items)

\* C7: a submission that gives the correct option for every question, one answer
\* per question, yields score = T, correctAnswers = N and percentage = 100.
C7_AllCorrectIsFullScore ==
    (h.scored /\ AllCorrect(questions, Items)) =>
        /\ h.scores.scorePoints = SumOfPoints(questions, Len(questions))
        /\ h.scores.correctAnswers = Len(questions)
        /\ h.scores.percentage = 100

C7_Witness ==
    /\ h.status = 201
    /\ Len(questions) = 2
    /\ AllCorrect(questions, Items)
    /\ Items[1].questionId = questions[2].id
    /\ results[1].score = SumOfPoints(questions, 2)
    /\ results[1].percentage = 100

\* C8: for a submission with at most one answer per question, all for questions
\* of the quiz and all with an option 0..3: correctAnswers is the number of
\* correct selections, incorrectAnswers the number of other selections,
\* unanswered is N minus the number of answers, percentage is round-half-up of
\* 100 * score / totalPoints; the empty submission gives 0, N and 0.
C8_CountsAndPercentage ==
    (/\ h.scored
     /\ AtMostOncePerQuestion(Items)
     /\ OnlyQuizQuestions(questions, Items)
     /\ Explicit(Items) = 1..Len(Items)) =>
        /\ h.scores.correctAnswers = Cardinality(Right(questions, Items))
        /\ h.scores.incorrectAnswers = Len(Items) - Cardinality(Right(questions, Items))
        /\ h.scores.unanswered = Len(questions) - Len(Items)
        /\ h.scores.percentage = RoundHalfUp(100 * h.scores.scorePoints, h.scores.totalPoints)
        /\ (Items = <<>> => /\ h.scores.correctAnswers = 0
                            /\ h.scores.unanswered = Len(questions)
                            /\ h.scores.percentage = 0)

----------------------------------------------------------------------------
(* Properties of the whole handler, under Spec *)

\* C9: when submitQuiz answers with an error, no Result has been stored and the
\* quiz's attemptCount and averageScore and the student's averageScore are as
\* they were; a quiz with no questions is refused before any Result is saved,
\* so no stored Result is of a quiz without questions.
C9_ErrorsStoreNothing ==
    /\ [][h'.status # 201 => UNCHANGED <<results, quiz, students>>]_vars
    /\ [](\A i \in 1..Len(results) : results[i].totalQuestions > 0)

C9_Witness ==
    /\ h.status = 500
    /\ h.scored
    /\ Len(results) = 2
    /\ quiz.attemptCount = 2
    /\ quiz.averageScore = 90
    /\ students["s1"].averageScore = 90

\* C10: on a new attempt the update of step 6 sets the quiz's attemptCount to
\* the prior count plus one and its averageScore to round-half-up of
\* (priorAverage * priorCount + percentage) / (priorCount + 1), prior being the
\* stored values the request found; from count 2 and average 80, a percentage
\* of 100 gives average 87 and count 3, in the handler and as stored.
C10_IncrementalAggregate ==
    [][results' # results =>
        LET p == results'[Len(results')].percentage
        IN /\ h'.quiz.attemptCount = quiz.attemptCount + 1
           /\ h'.quiz.averageScore =
                 RoundHalfUp(quiz.averageScore * quiz.attemptCount + p, quiz.attemptCount + 1)
           /\ quiz'.attemptCount = quiz.attemptCount + 1
           /\ (quiz.attemptCount = 2 /\ quiz.averageScore = 80 /\ p = 100
                 => /\ h'.quiz.attemptCount = 3 /\ h'.quiz.averageScore = 87
                    /\ quiz'.attemptCount = 3 /\ quiz'.averageScore = 87)]_vars

C10_Witness ==
    /\ h.status = 201
    /\ h.priorAttemptCount = 2
    /\ h.existingAverageScore = 80
    /\ h.scores.percentage = 100
    /\ h.quiz.attemptCount = 3
    /\ h.quiz.averageScore = 87
    /\ quiz.attemptCount = 3
    /\ quiz.averageScore = 87

\* the incremental formula applied to the first n stored percentages, attempt
\* by attempt, from an average of 0
RECURSIVE IncrementalOver(_, _)
IncrementalOver(rs, n) ==
    IF n = 0 THEN 0
    ELSE RoundHalfUp(IncrementalOver(rs, n - 1) * (n - 1) + rs[n].percentage, n)

\* C11: the incremental average can drift from the full recomputation. In a
\* run of submissions the stored attemptCount is always the attemptCount
\* getQuizStats computes, and up to two attempts the stored averageScore is the
\* rounded mean getQuizStats computes; the witness is a third attempt after
\* which the two averages differ while the counts agree.
C11_CountsAgreeAveragesMayDrift ==
    LET stats == GetQuizStats(results, QuizId)
    IN /\ quiz.attemptCount = stats.attemptCount
       /\ Len(results) <= 2 => quiz.averageScore = stats.averageScore

C11_Witness ==
    LET stats == GetQuizStats(results, QuizId)
    IN /\ Len(results) = 3
       /\ quiz.attemptCount = stats.attemptCount
       /\ quiz.averageScore = IncrementalOver(results, 3)
       /\ quiz.averageScore = 34
       /\ stats.averageScore = 33

----------------------------------------------------------------------------
(* Properties of the quiz's life, under LifeSpec *)

\* C12: the statistics getQuizStats recomputes report passRate as the rounded
\* percentage of the attempts whose percentage is at least the pass threshold,
\* the threshold being the pass percentage the quiz was created with when it
\* was given one and 60 otherwise; with no attempts every statistic is 0.
C12_PassRateByQuizThreshold ==
    LET stats == GetQuizStats(results, QuizId)
        n == Len(results)
        threshold == IF body.given /\ body.passPercentage # 0
                     THEN body.passPercentage ELSE 60
        passed == Cardinality({ k \in 1..n : results[k].percentage >= threshold })
    IN IF n = 0
       THEN stats = [attemptCount |-> 0, averageScore |-> 0, highestScore |-> 0,
                     lowestScore |-> 0, averageTime |-> 0, passRate |-> 0]
       ELSE stats.passRate = RoundHalfUp(100 * passed, n)

\* the step is a submission that was accepted
Accepted == req' # NoRequest /\ h'.status = 201

\* C13: each accepted submitQuiz request adds exactly one Result, no other
\* request adds or removes one, and a Result once stored keeps its place and
\* all its fields through later submissions, joins, quiz and category requests.
C13_ResultsAreWriteOnce ==
    [][/\ Len(results') = Len(results) + (IF Accepted THEN 1 ELSE 0)
       /\ \A k \in 1..Len(results) : results'[k] = results[k]]_vars

C13_Witness ==
    /\ Len(results) = 2
    /\ results[1].percentage = 67
    /\ results[2].percentage = 33
    /\ ~quiz.exists
    /\ ~category.exists
    /\ h.message = "Category deleted successfully"

----------------------------------------------------------------------------
(* Further properties of the whole handler, under Spec *)

\* C14: every stored Result has exactly one owner: exactly one of its student
\* and user references is set, and it is the one its participantType names.
C14_OneOwner ==
    \A k \in 1..Len(results) :
        LET r == results[k]
        IN /\ (r.student # NoId) # (r.user # NoId)
           /\ r.participantType = "student" => r.student # NoId
           /\ r.participantType = "user" => r.user # NoId

C14_Witness ==
    /\ Len(results) = MaxResults
    /\ \A k \in 1..Len(results) :
          /\ results[k].participantType = "student"
          /\ results[k].student = "s1"
          /\ results[k].user = NoId

\* C18: sending the same submitQuiz request a second time leaves the Results,
\* the quiz's attemptCount and averageScore and the student's averageScore as
\* they were after the first time.
C18_RetryChangesNothing ==
    [][(h.status = 201 /\ req' = req) =>
          /\ results' = results
          /\ quiz'.attemptCount = quiz.attemptCount
          /\ quiz'.averageScore = quiz.averageScore
          /\ students' = students]_vars

----------------------------------------------------------------------------
(* Properties of authoring, under AuthorSpec *)

\* C15: after createQuiz, a question save or a question removal, the quiz's
\* totalPoints is the sum of the points of its questions and its questionCount
\* is their number.
C15_StatsMatchQuestions ==
    quiz.exists =>
        /\ quiz.totalPoints = SumOfPoints(questions, Len(questions))
        /\ quiz.questionCount = Len(questions)

C15_Witness ==
    /\ h.message = "Question removed"
    /\ Len(questions) = 1
    /\ questions[1].points = 17
    /\ quiz.totalPoints = 17
    /\ quiz.questionCount = 1

----------------------------------------------------------------------------
(* Properties of overlapping submissions, under RaceSpec *)

\* both requests have been answered 201
BothAccepted == \A s \in Slots : flights[s].pc = "done" /\ flights[s].status = 201

\* C17: two submissions of the same quiz served at once can both read the same
\* prior attemptCount and averageScore; the write of the one that saves last
\* replaces the other's. Whenever both were accepted both Results are stored,
\* and when both read the same prior count the quiz's attemptCount ends at that
\* count plus one, below the number of its Results.
C17_LastWriterWins ==
    BothAccepted =>
        /\ Len(results) = 2
        /\ quiz.attemptCount >= 1 /\ quiz.attemptCount <= Len(results)
        /\ flights[1].prior = flights[2].prior
              => /\ quiz.attemptCount = flights[1].prior + 1
                 /\ quiz.attemptCount < Len(ResultsOfQuiz(results, QuizId))

C17_Witness ==
    /\ BothAccepted
    /\ \A s \in Slots : flights[s].prior = 0
    /\ Len(ResultsOfQuiz(results, QuizId)) = 2
    /\ results[1].percentage = 100
    /\ results[2].percentage = 33
    /\ quiz.attemptCount = 1

----------------------------------------------------------------------------
(* Properties of the quiz-taking page, under TimerSpec *)

----------------------------------------------------------------------------
(* Properties of the admin routes, under AdminSpec *)

\* C20: the handler behind auth and adminOnly runs only for a request whose
\* session names a stored, active account with the role admin; any other
\* request is answered 401 or 403 and the handler does not run; and a request
\* with the session of a deleted or deactivated user leaves no session.
C20_AdminOnlyForAdminAccounts ==
    /\ web.ran =>
          /\ web.by \in Accounts
          /\ web.users[web.by].exists
          /\ web.users[web.by].isActive
          /\ web.users[web.by].role = "admin"
    /\ (web.by # NoId /\ ~web.ran) => web.res \in {401, 403}
    /\ (web.by \in Accounts /\ ~(web.users[web.by].exists /\ web.users[web.by].isActive))
          => web.session = NoSession

----------------------------------------------------------------------------
(* Properties of the submit endpoint for both participant kinds, under Spec *)

\* a well-formed submission for the stored quiz, which has questions
WellFormedSubmission ==
    /\ req.quizId = QuizId
    /\ req.answers.isArray
    /\ ~ScoringThrows(req.answers.items)
    /\ Len(questions) > 0

\* C21: a well-formed submission with participantType 'user' from a session
\* of a stored user is answered 201 and its Result is owned by that user, as
\* a well-formed submission of a stored student is answered 201 with a Result
\* owned by that student.
C21_BothParticipantKindsAccepted ==
    /\ (WellFormedSubmission /\ req.participantType = "user" /\ req.sessionUser \in Users) =>
          /\ h.status = 201
          /\ Len(results) > 0
          /\ results[Len(results)].user = req.sessionUser
          /\ results[Len(results)].student = NoId
    /\ (WellFormedSubmission /\ req.participantType = "student" /\ req.studentId \in Students
          /\ h.status # 500) =>
          /\ h.status = 201
          /\ Len(results) > 0
          /\ results[Len(results)].student = req.studentId
          /\ results[Len(results)].user = NoId

----------------------------------------------------------------------------
(* Properties of the result list of a quiz, under ViewSpec *)

\* C22: a getResultsByQuiz request that passed auth is answered with the
\* quiz's Results exactly when the requester is the user who created the
\* quiz; any other authenticated requester is answered 403, and a request
\* for a quiz that is not stored is answered 404.
C22_CreatorSeesResults ==
    [][(web' # web /\ web'.ran /\ web'.quizId # NoId) =>
          IF ~FindQuiz(quiz, web'.quizId) THEN web'.res = 404
          ELSE IF web'.by = CreatedBy
               THEN /\ web'.res = 200
                    /\ web'.data = NewestFirst(ResultsOfQuiz(results, web'.quizId))
          ELSE web'.res = 403]_vars

----------------------------------------------------------------------------
(* Properties of the stored timeout flag, under TakeSpec *)

\* C23: the Result stored for the page's submission has wasTimeout = TRUE
\* when the submission was started by the countdown running out, and
\* wasTimeout = FALSE when it was started by the submit button.
C23_TimeoutRecorded ==
    Len(results) > 0 => results[1].wasTimeout = TimeIsUp(page.secondsRemaining)

----------------------------------------------------------------------------
(* Properties of the public quiz list, under ListSpec *)

\* C24: whatever the query parameters, the response to GET /api/quizzes from
\* a caller who is not the teacher owning the quiz holds no quiz with
\* isPublished = FALSE.
C24_OnlyPublishedListed ==
    (web.res = 200 /\ web.by # CreatedBy) =>
        \A i \in 1..Len(web.quizzes) : web.quizzes[i].isPublished

----------------------------------------------------------------------------
(* Properties of the category's quiz count, under CountSpec *)

\* the published quizzes that reference the category
PublishedQuizzes == IF quiz.exists /\ quiz.isPublished THEN 1 ELSE 0

\* C25: after every createQuiz, generateCode and deleteQuiz request the
\* category's quizCount is the number of published quizzes that reference it.
C25_QuizCountIsPublishedCount ==
    category.exists => category.quizCount = PublishedQuizzes

----------------------------------------------------------------------------
(* Properties of the category names, under NameSpec *)

\* no two stored categories have names that are equal ignoring letter case
NoCaseDuplicates ==
    \A i, j \in 1..Len(category.docs) :
        category.docs[i].folded = category.docs[j].folded => i = j

\* C26: no two stored categories have names that are equal ignoring letter
\* case; a createCategory or updateCategory request answered 400 changes
\* nothing; and a seedCategories request that follows a seedCategories
\* request creates no category.
C26_NamesUniqueIgnoringCase ==
    /\ []NoCaseDuplicates
    /\ [][h'.status = 400 => category' = category]_vars
    /\ [][(h.message = "Categories seeded" /\ h'.message = "Categories seeded")
            => category' = category]_vars

----------------------------------------------------------------------------
(* Properties of the quiz's category reference, under RefSpec *)

\* C27: in every state reached by createQuiz, deleteQuiz and deleteCategory
\* requests, however their handlers interleave, the category of the stored
\* quiz exists; and a deleteCategory request answered 400 keeps the category.
C27_QuizCategoryExists ==
    /\ [](quiz.exists => category.exists)
    /\ [][h'.status = 400 => category' = category]_vars

----------------------------------------------------------------------------
(* Properties of the two writes of the quiz aggregates, under Spec *)

\* the aggregates the Result post-save hook computes from the stored Results
HookStats == PostSaveQuizStats(quiz, results, QuizId)

----------------------------------------------------------------------------
(* Properties of the counts of a stored Result, under ScoreSpec *)

\* C29: in every stored Result correctAnswers + incorrectAnswers + unanswered
\* is totalQuestions, none of the three counts is negative, and score is at
\* most totalPoints, whatever the answers array held.
C29_CountsConsistent ==
    \A i \in 1..Len(results) :
        LET doc == results[i]
        IN /\ doc.correctAnswers + doc.incorrectAnswers + doc.unanswered = doc.totalQuestions
           /\ doc.correctAnswers >= 0
           /\ doc.incorrectAnswers >= 0
           /\ doc.unanswered >= 0
           /\ doc.score <= doc.totalPoints

====
